---- MODULE Spec2Model ----
(***************************************************************************)
(* Vote ledger, ballots and tally views of the election application.       *)
(*                                                                         *)
(* Storage (Postgres tables with row-level-security policies) is modelled  *)
(* from supabase/migrations; the browser components are modelled from the  *)
(* React sources.  A vote insert is split at its awaits: the request is    *)
(* issued, storage executes it, the client continuation runs.  The reads a *)
(* component issues when it mounts are taken at one storage state, and the *)
(* admin's toggle (update, then refetch) is one step.  State updates made  *)
(* in one continuation are rendered together.                              *)
(***************************************************************************)
EXTENDS Integers, Sequences, FiniteSets, Bags, TLC

\* ------------------------------------------------------------------ bounds
\* confirmVote invocations the cards of one Elections page have outstanding
MaxCalls == 2
\* largest count a count query returns for one option
MaxCount == 3
\* the live counter takes realtime notifications while its total is below this
MaxLiveTotal == 5
\* the clock of the rate limiter runs for this many windows
MaxWindows == 3
\* handleElectionToggle invocations the dashboard has outstanding
MaxToggles == 2
\* addOption adds fields while the form has fewer than this
MaxFields == 3

\* ---------------------------------------------------------------- fixtures
\* auth.users rows; a1 is the admin who created the elections
Voters == {"u1"}
Admins == {"a1"}
Users == Voters \cup Admins
\* auth.uid() of a request that carries no session
NoUser == "anon"
Principals == Users \cup {NoUser}
\* ids of public.elections rows
Elections == {"e1", "e2"}
\* public.options rows and their election_id column
Options == {"o1", "o2", "o3"}
\* the option rows a creation form inserts for its new election
FormOptions == {"o4", "o5"}
OptionElection == [o \in Options \cup FormOptions |-> IF o \in {"o1", "o2"} THEN "e1" ELSE "e2"]
\* elections.created_by of the elections that exist from the start
CreatedBy == [e \in Elections |-> "a1"]
\* a column that holds no id
NoId == "null"
\* identities that sign up later
NewUsers == {"u2"}
\* TYPE public.user_role
Roles == {"admin", "voter"}

NoOption == "null"

\* outstanding remote calls of a component are kept as a bag of call records
Replace(bag, old, new) == (bag (-) SetToBag({old})) (+) SetToBag({new})
Remove(bag, old) == bag (-) SetToBag({old})

VARIABLES
    \* storage
    elections,      \* ids of the rows of public.elections
    votes,          \* public.votes
    is_open,        \* public.elections.is_open
    users,          \* ids of the rows of auth.users
    profiles,       \* public.profiles: rows (user_id, role)
    created_by,     \* public.elections.created_by
    options,        \* ids of the rows of public.options
    \* Elections page of voter PageUser, with one ElectionCard per listed election
    pgElections,    \* Elections.elections (ids; every listed row has is_open = true)
    userVotes,      \* Elections.userVotes
    card,           \* per ElectionCard: options, selectedOptionId, showVoteConfirm, votingOptionId
    calls,          \* outstanding ElectionCard.confirmVote invocations
    \* VotingInterface of voter ViUser for election ViElection
    viElection, viOptions, selectedOption, showConfirmDialog,
    isVoting, hasVoted, viCalls, viToast,
    \* AdminDashboard of AdminUser
    adElections,    \* AdminDashboard.elections, as displayed
    \* REST endpoint: the last request handled and its outcome
    apiLast,
    \* results page of one election: what its option and count queries return,
    \* in retrieval order, and the state of the three views
    optionCounts,
    lvcVoteData, lvcTotalVotes,     \* LiveVoteCounter.voteData, .totalVotes
    erResults, erTotalVotes,        \* ElectionResults.results, .totalVotes
    vaVoteStats, vaTotalVotes,      \* VotingAnalytics.voteStats, .totalVotes
    \* the realtime channel of LiveVoteCounter
    lvcChannel,     \* the live subscription: the rows of votes it was made after
    lvcSeen,        \* the inserted rows whose notification onInsert has handled
    lvcMounted,     \* whether the LiveVoteCounter instance is mounted
    lvcRecentVotes, \* LiveVoteCounter.recentVotes
    lvcTimers,      \* pending setTimeout callbacks of onInsert
    \* CreateElectionDialog / ElectionScheduler of AdminUser
    ceCall,         \* the creation in progress: its stage, form values and reply
    ceLoading,      \* loading
    ceToast,        \* the last toast of the flow
    \* the vote count of VotingInterface and its vote-updates channel
    viVoteCount,    \* VotingInterface.voteCount
    viFetches,      \* outstanding fetchVoteCount invocations
    viSince,        \* the rows of votes the channel was subscribed after
    viSeen,         \* the inserted rows the channel has announced
    \* the form of a creation flow (formData / scheduledElection)
    formTitle,      \* title
    formOptions,    \* options: the sequence of the option fields
    \* the dashboard's toggles
    adCalls,        \* outstanding handleElectionToggle invocations
    \* the rate limiter of a card (useRateLimit)
    rlAttempts,     \* state.attempts
    rlLastReset,    \* state.lastReset
    rlNow,          \* the clock Date.now() reads
    rlResult,       \* what the last call of checkRateLimit returned
    rlGranted       \* the calls that returned true at or after lastReset

storageVars == <<elections, votes, is_open, users, profiles, created_by, options>>
pageVars == <<pgElections, userVotes, card, calls>>
viVars == <<viElection, viOptions, selectedOption, showConfirmDialog,
            isVoting, hasVoted, viCalls, viToast>>
adminVars == <<adElections>>
tallyVars == <<optionCounts, lvcVoteData, lvcTotalVotes, erResults, erTotalVotes,
               vaVoteStats, vaTotalVotes>>
liveVars == <<lvcChannel, lvcSeen, lvcMounted, lvcRecentVotes, lvcTimers>>
createVars == <<ceCall, ceLoading, ceToast>>
countVars == <<viVoteCount, viFetches, viSince, viSeen>>
formVars == <<formTitle, formOptions>>
toggleVars == <<adCalls>>
limitVars == <<rlAttempts, rlLastReset, rlNow, rlResult, rlGranted>>
restVars == <<liveVars, createVars, countVars, formVars, toggleVars, limitVars>>
vars == <<storageVars, pageVars, viVars, adminVars, apiLast, tallyVars, restVars>>

PageUser == "u1"
ViUser == "u1"
ViElection == "e1"
AdminUser == "a1"

\* ------------------------------------------------------------------ storage
\* rows of public.options: an option exists with its election
ExistingOptions == {o \in options : OptionElection[o] \in elections}

\* a vote row (election_id, option_id, user_id) that satisfies the foreign
\* keys: each id exists in its own table
VoteRows == [election_id : elections, option_id : ExistingOptions, user_id : users]

\* get_user_role(user_uuid): NULL for a uid without a profile
get_user_role(uid) ==
    IF \E p \in profiles : p.user_id = uid
    THEN (CHOOSE p \in profiles : p.user_id = uid).role
    ELSE "null"

\* EXISTS (SELECT 1 FROM elections WHERE id = votes.election_id AND is_open)
\* (variant: the subquery without its is_open condition)
ElectionOpenExists_AnyRow(e) == e \in elections
ElectionOpenExists(e) == e \in elections /\ is_open[e]

\* POLICY "Voters can insert their vote" ... WITH CHECK
\* (variants: the check without its EXISTS clause, without its uid clause)
VotesInsertPolicy_NoOpenCheck(uid, row) == uid = row.user_id
VotesInsertPolicy_NoUidCheck(uid, row) == ElectionOpenExists(row.election_id)
VotesInsertPolicy(uid, row) ==
    /\ uid = row.user_id
    /\ ElectionOpenExists(row.election_id)

\* UNIQUE(election_id, user_id)
\* (variant: the table without the constraint)
VotesUnique_Dropped(row) == TRUE
VotesUnique(row) ==
    ~ \E v \in votes : v.election_id = row.election_id /\ v.user_id = row.user_id

\* outcome of INSERT INTO votes by uid: the policy is checked on the new row
\* before the unique index is
InsertVoteResult(uid, row) ==
    IF ~ VotesInsertPolicy(uid, row) THEN "rls"
    ELSE IF ~ VotesUnique(row) THEN "unique"
    ELSE "ok"

VotesAfterInsert(uid, row) ==
    IF InsertVoteResult(uid, row) = "ok" THEN votes \cup {row} ELSE votes

\* POLICY "Admins can update their elections" ... USING
ElectionsUpdatePolicy(uid, e) ==
    get_user_role(uid) = "admin" /\ uid = created_by[e]

\* UPDATE elections SET is_open = value WHERE id = e: rows the policy hides
\* are not updated and no error is raised
IsOpenAfterUpdate(uid, e, value) ==
    IF e \in elections /\ ElectionsUpdatePolicy(uid, e)
    THEN [is_open EXCEPT ![e] = value] ELSE is_open

\* SELECT policies on elections: open ones for everyone, all for admins
ElectionsSelectPolicy(uid, e) == is_open[e] \/ get_user_role(uid) = "admin"

\* SELECT policies on votes: own rows, all rows for admins
\* (variant: every signed-in principal reads every row)
VotesSelectPolicy_AllRows(uid, v) == uid \in users
VotesSelectPolicy(uid, v) == uid = v.user_id \/ get_user_role(uid) = "admin"

\* SELECT policies on options: those of open elections, all for admins
OptionsSelectPolicy(uid, o) ==
    \/ OptionElection[o] \in elections /\ is_open[OptionElection[o]]
    \/ get_user_role(uid) = "admin"

\* rows the options query of a component returns for election e
VisibleOptions(uid, e) ==
    {o \in ExistingOptions : OptionElection[o] = e /\ OptionsSelectPolicy(uid, o)}

\* votes has no UPDATE and no DELETE policy: with row level security enabled
\* no row qualifies
\* (variants: a policy for one's own rows)
VotesUpdatePolicy_Own(uid, v) == uid = v.user_id
VotesUpdatePolicy(uid, v) == FALSE
VotesDeletePolicy_Own(uid, v) == uid = v.user_id
VotesDeletePolicy(uid, v) == FALSE

\* POLICY "Admins can create elections" ... WITH CHECK
ElectionsInsertPolicy(uid, creator) ==
    get_user_role(uid) = "admin" /\ uid = creator

\* POLICY "Admins can create options" ... WITH CHECK
\* (variant: the check without its role condition)
OptionsInsertPolicy_Anyone(uid) == uid \in users
OptionsInsertPolicy(uid) == get_user_role(uid) = "admin"

\* UPDATE policies on profiles: "Users can update their own profile" and
\* "Admins can update any profile"; neither names a column
\* (variant: only admins may update)
ProfilesUpdatePolicy_AdminOnly(uid, target) == get_user_role(uid) = "admin"
\* (variant: every signed-in principal may update every profile)
ProfilesUpdatePolicy_AnyUser(uid, target) == uid # NoUser
ProfilesUpdatePolicy(uid, target) ==
    uid = target \/ get_user_role(uid) = "admin"

\* POLICY "Users can insert their own profile" ... WITH CHECK
ProfilesInsertPolicy(uid, row) == uid = row.user_id

\* UNIQUE(user_id) of profiles
\* (variant: the table without the constraint)
ProfilesUnique_Dropped(row) == TRUE
ProfilesUnique(row) == ~ \E p \in profiles : p.user_id = row.user_id

\* handle_new_user(): the row the trigger on_auth_user_created inserts
\* (variant: the trigger gives the new identity the other role)
NewUserProfile_Admin(id) == [user_id |-> id, role |-> "admin"]
NewUserProfile(id) == [user_id |-> id, role |-> "voter"]

\* ------------------------------------------------- Elections page + cards
InitCard == [options |-> {}, selectedOptionId |-> NoOption,
             showVoteConfirm |-> FALSE, votingOptionId |-> NoOption]

\* Elections.fetchElections: .eq('is_open', true)
FetchElections(uid) ==
    {e \in elections : is_open[e] /\ ElectionsSelectPolicy(uid, e)}

\* Elections.fetchUserVotes
FetchUserVotes(uid) ==
    {v.election_id : v \in {w \in votes : w.user_id = uid /\ VotesSelectPolicy(uid, w)}}

\* ElectionCard.fetchElectionData when the card of a listed election mounts
MountedCards(uid) ==
    [e \in Elections |-> IF e \in FetchElections(uid)
                         THEN [InitCard EXCEPT !.options = VisibleOptions(uid, e)]
                         ELSE InitCard]

\* the onVote prop the page hands to the card of election e
OnVoteDefined(e) == e \notin userVotes

\* the confirmation dialog is modal: no other control of the page reacts
PgDialogOpen == \E e \in Elections : card[e].showVoteConfirm

\* option button of a card: disabled={votingOptionId === option.id}
VoteButtonEnabled(e, o) ==
    /\ e \in pgElections
    /\ OnVoteDefined(e)
    /\ o \in card[e].options
    /\ card[e].votingOptionId # o

\* ElectionCard.handleVoteClick
HandleVoteClick(e, o) ==
    /\ ~ PgDialogOpen
    /\ VoteButtonEnabled(e, o)
    /\ card' = [card EXCEPT ![e].selectedOptionId = o, ![e].showVoteConfirm = TRUE]
    /\ UNCHANGED <<storageVars, pgElections, userVotes, calls,
                   viVars, adminVars, apiLast, tallyVars, restVars>>

\* AlertDialogCancel of the card's dialog
CancelVote(e) ==
    /\ card[e].showVoteConfirm
    /\ card' = [card EXCEPT ![e].showVoteConfirm = FALSE]
    /\ UNCHANGED <<storageVars, pgElections, userVotes, calls,
                   viVars, adminVars, apiLast, tallyVars, restVars>>

\* a call record: the row the insert carries, how far the call has come, the
\* error storage returned and the toasts shown for it
NewCall(e, o) == [stage |-> "sent", election_id |-> e, option_id |-> o,
                  result |-> "", toasts |-> {}]

\* ElectionCard.confirmVote up to the await of Elections.handleVote's insert
ConfirmVote(e) ==
    /\ card[e].showVoteConfirm
    /\ IF card[e].selectedOptionId = NoOption \/ ~ OnVoteDefined(e)
       THEN /\ card' = [card EXCEPT ![e].showVoteConfirm = FALSE]
            /\ calls' = calls
       ELSE /\ BagCardinality(calls) < MaxCalls
            /\ card' = [card EXCEPT ![e].votingOptionId = card[e].selectedOptionId,
                                    ![e].showVoteConfirm = FALSE]
            /\ calls' = calls (+) SetToBag({NewCall(e, card[e].selectedOptionId)})
    /\ UNCHANGED <<storageVars, pgElections, userVotes, viVars, adminVars, apiLast, tallyVars, restVars>>

CallRow(c, uid) == [election_id |-> c.election_id, option_id |-> c.option_id,
                    user_id |-> uid]

\* storage executes the insert of call c
PgStorageInsert(c) ==
    /\ c.stage = "sent"
    /\ votes' = VotesAfterInsert(PageUser, CallRow(c, PageUser))
    /\ calls' = Replace(calls, c, [c EXCEPT !.stage = "replied",
                    !.result = InsertVoteResult(PageUser, CallRow(c, PageUser))])
    /\ UNCHANGED <<elections, is_open, users, profiles, created_by, options, pgElections, userVotes, card,
                   viVars, adminVars, apiLast, tallyVars, restVars>>

\* the request of call c does not reach storage
PgNetworkFail(c) ==
    /\ c.stage = "sent"
    /\ calls' = Replace(calls, c, [c EXCEPT !.stage = "replied", !.result = "network"])
    /\ UNCHANGED <<storageVars, pgElections, userVotes, card,
                   viVars, adminVars, apiLast, tallyVars, restVars>>

\* toasts of Elections.handleVote after its await
HandleVoteToasts(result) == IF result = "ok" THEN {"Vote Recorded"} ELSE {"Error"}

\* handleVote catches its own error, so the await in ElectionCard.confirmVote
\* resolves whatever the result was
CardToasts(result) == {"Vote Submitted"}

\* Elections.handleVote after the insert settles, then ElectionCard.confirmVote
\* up to the await of fetchElectionData
\* (variant: a failed insert is sent again)
PgClientReceive_Retry(c) ==
    /\ c.stage = "replied"
    /\ userVotes' = IF c.result = "ok"
                    THEN userVotes \cup {c.election_id} ELSE userVotes
    /\ calls' = Replace(calls, c,
                    IF c.result = "ok"
                    THEN [c EXCEPT !.stage = "refetch", !.result = "",
                              !.toasts = HandleVoteToasts(c.result) \cup CardToasts(c.result)]
                    ELSE [c EXCEPT !.stage = "sent", !.result = ""])
    /\ UNCHANGED <<storageVars, pgElections, card, viVars, adminVars, apiLast, tallyVars, restVars>>
PgClientReceive(c) ==
    /\ c.stage = "replied"
    /\ userVotes' = IF c.result = "ok"
                    THEN userVotes \cup {c.election_id} ELSE userVotes
    /\ calls' = Replace(calls, c, [c EXCEPT !.stage = "refetch", !.result = "",
                    !.toasts = HandleVoteToasts(c.result) \cup CardToasts(c.result)])
    /\ UNCHANGED <<storageVars, pgElections, card, viVars, adminVars, apiLast, tallyVars, restVars>>

\* fetchElectionData returns, then the finally block of confirmVote
CardSettle(c) ==
    /\ c.stage = "refetch"
    /\ LET e == c.election_id IN
       card' = [card EXCEPT ![e].options = VisibleOptions(PageUser, e),
                            ![e].votingOptionId = NoOption,
                            ![e].selectedOptionId = NoOption]
    /\ calls' = Remove(calls, c)
    /\ UNCHANGED <<storageVars, pgElections, userVotes, viVars, adminVars, apiLast, tallyVars, restVars>>

\* the page after its mount effects: fetchElections, fetchUserVotes and the
\* cards' fetchElectionData
InitPage ==
    /\ pgElections = FetchElections(PageUser)
    /\ userVotes = FetchUserVotes(PageUser)
    /\ card = MountedCards(PageUser)
    /\ calls = EmptyBag

\* the page is left and mounted again while nothing is outstanding
PageReload ==
    /\ calls = EmptyBag
    /\ pgElections' = FetchElections(PageUser)
    /\ userVotes' = FetchUserVotes(PageUser)
    /\ card' = MountedCards(PageUser)
    /\ UNCHANGED <<storageVars, calls, viVars, adminVars, apiLast, tallyVars, restVars>>

\* ------------------------------------------------------- VotingInterface
\* VotingInterface.fetchElectionData: .single() fails when the row is hidden,
\* and the options query is then never issued
FetchElectionRow(uid, e) ==
    IF e \in elections /\ ElectionsSelectPolicy(uid, e)
    THEN (IF is_open[e] THEN "open" ELSE "closed")
    ELSE "null"

FetchElectionOptions(uid, e) ==
    IF FetchElectionRow(uid, e) = "null" THEN {} ELSE VisibleOptions(uid, e)

\* VotingInterface.checkIfUserVoted
CheckIfUserVoted(uid, e) ==
    \E v \in votes : v.election_id = e /\ v.user_id = uid /\ VotesSelectPolicy(uid, v)

\* option button: disabled={hasVoted || !election.is_open || isVoting}
OptionButtonEnabled(o) ==
    /\ viElection = "open"
    /\ o \in viOptions
    /\ ~ hasVoted
    /\ ~ isVoting

\* VotingInterface.handleOptionSelect
HandleOptionSelect(o) ==
    /\ ~ showConfirmDialog
    /\ OptionButtonEnabled(o)
    /\ selectedOption' = o
    /\ showConfirmDialog' = TRUE
    /\ UNCHANGED <<storageVars, pageVars, viElection, viOptions,
                   isVoting, hasVoted, viCalls, viToast, adminVars, apiLast, tallyVars, restVars>>

\* AlertDialogCancel disabled={isVoting}
ViCancel ==
    /\ showConfirmDialog
    /\ ~ isVoting
    /\ showConfirmDialog' = FALSE
    /\ UNCHANGED <<storageVars, pageVars, viElection, viOptions,
                   selectedOption, isVoting, hasVoted, viCalls, viToast,
                   adminVars, apiLast, tallyVars, restVars>>

\* AlertDialogAction disabled={isVoting}
ConfirmButtonEnabled == showConfirmDialog /\ ~ isVoting

\* a call record of the component; open_when_sent notes whether the election
\* was open in storage when the request left the browser
ViNewCall(e, o) == [stage |-> "sent", election_id |-> e, option_id |-> o,
                    open_when_sent |-> is_open[e], result |-> ""]

\* VotingInterface.confirmVote up to the await of the insert; the click on the
\* dialog's action button also closes the dialog
ViConfirmVote ==
    /\ ConfirmButtonEnabled
    /\ selectedOption # NoOption
    /\ isVoting' = TRUE
    /\ viCalls' = viCalls (+) SetToBag({ViNewCall(ViElection, selectedOption)})
    /\ showConfirmDialog' = FALSE
    /\ UNCHANGED <<storageVars, pageVars, viElection, viOptions,
                   selectedOption, hasVoted, viToast, adminVars, apiLast, tallyVars, restVars>>

\* storage executes the insert of call c
ViStorageInsert(c) ==
    /\ c.stage = "sent"
    /\ votes' = VotesAfterInsert(ViUser, CallRow(c, ViUser))
    /\ viCalls' = Replace(viCalls, c, [c EXCEPT !.stage = "replied",
                      !.result = InsertVoteResult(ViUser, CallRow(c, ViUser))])
    /\ UNCHANGED <<elections, is_open, users, profiles, created_by, options, pageVars, viElection, viOptions,
                   selectedOption, showConfirmDialog, isVoting, hasVoted, viToast,
                   adminVars, apiLast, tallyVars, restVars>>

\* the request of call c does not reach storage
ViNetworkFail(c) ==
    /\ c.stage = "sent"
    /\ viCalls' = Replace(viCalls, c, [c EXCEPT !.stage = "replied", !.result = "network"])
    /\ UNCHANGED <<storageVars, pageVars, viElection, viOptions,
                   selectedOption, showConfirmDialog, isVoting, hasVoted, viToast,
                   adminVars, apiLast, tallyVars, restVars>>

\* a fetchVoteCount invocation: its query is on its way, or its reply is
NewFetch == [stage |-> "sent", count |-> 0]

\* the count query of fetchVoteCount for viewer uid: rows of election e that
\* uid may read
CountElectionVotes(uid, e) ==
    Cardinality({v \in votes : v.election_id = e /\ VotesSelectPolicy(uid, v)})

\* toast of VotingInterface.confirmVote
ConfirmVoteToast(result) ==
    IF result = "ok" THEN "Vote cast successfully!"
    ELSE "Failed to cast vote. Please try again."

\* VotingInterface.confirmVote after the insert settles: try, catch, finally
\* (variant: hasVoted is set before the error is looked at)
ViClientReceive_MarkFirst(c) ==
    /\ c.stage = "replied"
    /\ hasVoted' = TRUE
    /\ showConfirmDialog' = (IF c.result = "ok" THEN FALSE ELSE showConfirmDialog)
    /\ viToast' = ConfirmVoteToast(c.result)
    /\ isVoting' = FALSE
    /\ viCalls' = Remove(viCalls, c)
    /\ viFetches' = IF c.result = "ok" THEN viFetches (+) SetToBag({NewFetch})
                    ELSE viFetches
    /\ UNCHANGED <<storageVars, pageVars, viElection, viOptions,
                   selectedOption, adminVars, apiLast, tallyVars,
                   liveVars, createVars, viVoteCount, viSince, viSeen,
                   formVars, toggleVars, limitVars>>
ViClientReceive(c) ==
    /\ c.stage = "replied"
    /\ IF c.result = "ok"
       THEN hasVoted' = TRUE /\ showConfirmDialog' = FALSE
       ELSE UNCHANGED <<hasVoted, showConfirmDialog>>
    /\ viToast' = ConfirmVoteToast(c.result)
    /\ isVoting' = FALSE
    /\ viCalls' = Remove(viCalls, c)
    /\ viFetches' = IF c.result = "ok" THEN viFetches (+) SetToBag({NewFetch})
                    ELSE viFetches
    /\ UNCHANGED <<storageVars, pageVars, viElection, viOptions,
                   selectedOption, adminVars, apiLast, tallyVars,
                   liveVars, createVars, viVoteCount, viSince, viSeen,
                   formVars, toggleVars, limitVars>>

\* the component after its mount effects: fetchElectionData, checkIfUserVoted
InitVi ==
    /\ viElection = FetchElectionRow(ViUser, ViElection)
    /\ viOptions = FetchElectionOptions(ViUser, ViElection)
    /\ hasVoted = CheckIfUserVoted(ViUser, ViElection)
    /\ selectedOption = NoOption
    /\ showConfirmDialog = FALSE
    /\ isVoting = FALSE
    /\ viCalls = EmptyBag
    /\ viToast = ""
    /\ viVoteCount = 0
    /\ viFetches = SetToBag({NewFetch})
    /\ viSince = votes
    /\ viSeen = {}

\* the component is unmounted and mounted again while nothing is outstanding
ViReload ==
    /\ viCalls = EmptyBag
    /\ viElection' = FetchElectionRow(ViUser, ViElection)
    /\ viOptions' = FetchElectionOptions(ViUser, ViElection)
    /\ hasVoted' = CheckIfUserVoted(ViUser, ViElection)
    /\ selectedOption' = NoOption
    /\ showConfirmDialog' = FALSE
    /\ isVoting' = FALSE
    /\ viToast' = ""
    /\ viVoteCount' = 0
    /\ viFetches' = SetToBag({NewFetch})
    /\ viSince' = votes
    /\ viSeen' = {}
    /\ UNCHANGED <<storageVars, pageVars, viCalls, adminVars, apiLast, tallyVars,
                   liveVars, createVars,
                   formVars, toggleVars, limitVars>>

\* storage runs the count query of fetch f
viFetchExecute(f) ==
    /\ f.stage = "sent"
    /\ viFetches' = Replace(viFetches, f,
                        [stage |-> "replied", count |-> CountElectionVotes(ViUser, ViElection)])
    /\ UNCHANGED <<storageVars, pageVars, viVars, adminVars, apiLast, tallyVars,
                   liveVars, createVars, viVoteCount, viSince, viSeen,
                   formVars, toggleVars, limitVars>>

\* fetchVoteCount after its await: setVoteCount(count || 0)
viFetchReceive(f) ==
    /\ f.stage = "replied"
    /\ viVoteCount' = f.count
    /\ viFetches' = Remove(viFetches, f)
    /\ UNCHANGED <<storageVars, pageVars, viVars, adminVars, apiLast, tallyVars,
                   liveVars, createVars, viSince, viSeen,
                   formVars, toggleVars, limitVars>>

\* the inserted rows the vote-updates channel has still to announce: rows of
\* the election inserted since the subscription, that the viewer may read
ViUndelivered ==
    {v \in votes \ (viSince \cup viSeen) :
        v.election_id = ViElection /\ VotesSelectPolicy(ViUser, v)}

\* the channel announces inserted row v: its handler calls fetchVoteCount()
viNotify(v) ==
    /\ v \in ViUndelivered
    /\ viSeen' = viSeen \cup {v}
    /\ viFetches' = viFetches (+) SetToBag({NewFetch})
    /\ UNCHANGED <<storageVars, pageVars, viVars, adminVars, apiLast, tallyVars,
                   liveVars, createVars, viVoteCount, viSince,
                   formVars, toggleVars, limitVars>>

\* -------------------------------------------------------- AdminDashboard
\* the rows AdminDashboard.fetchElections returns, as the page displays them
ElectionsView(uid) ==
    [e \in Elections |-> IF e \notin elections \/ ~ ElectionsSelectPolicy(uid, e)
                         THEN "absent"
                         ELSE IF is_open[e] THEN "open" ELSE "closed"]

\* the Switch of an admin card calls onToggle(election.id, election.is_open);
\* the update then carries is_open: !isOpen
ToggleValue(e) == ~ (adElections[e] = "open")

\* AdminDashboard.handleElectionToggle: the update, then fetchElections, which
\* reads the rows the update left
handleElectionToggle(e) ==
    /\ adElections[e] # "absent"
    /\ is_open' = IsOpenAfterUpdate(AdminUser, e, ToggleValue(e))
    /\ adElections' = [x \in Elections |->
                          IF x \notin elections \/ ~ ElectionsSelectPolicy(AdminUser, x)
                          THEN "absent"
                          ELSE IF is_open'[x] THEN "open" ELSE "closed"]
    /\ UNCHANGED <<elections, votes, users, profiles, created_by, options, pageVars, viVars, apiLast, tallyVars, restVars>>

\* the dashboard after its mount effect: fetchElections
InitAdmin ==
    /\ adElections = ElectionsView(AdminUser)
    /\ adCalls = EmptyBag

\* the Switch of a card of the dashboard: onToggle(election.id, election.is_open);
\* handleElectionToggle up to its await, with isOpen the value the card shows
toggleClick(e) ==
    /\ adElections[e] # "absent"
    /\ BagCardinality(adCalls) < MaxToggles
    /\ adCalls' = adCalls (+) SetToBag({[election_id |-> e, isOpen |-> adElections[e] = "open",
                                         stage |-> "sent"]})
    /\ UNCHANGED <<storageVars, pageVars, viVars, adminVars, apiLast, tallyVars,
                   liveVars, createVars, countVars, formVars, limitVars>>

\* storage handles the UPDATE of toggle c, which carries is_open: !isOpen
\* (variant: the update negates the stored value)
toggleStorageUpdate_FlipStored(c) ==
    /\ c.stage = "sent"
    /\ is_open' = IsOpenAfterUpdate(AdminUser, c.election_id, ~ is_open[c.election_id])
    /\ adCalls' = Replace(adCalls, c, [c EXCEPT !.stage = "replied"])
    /\ UNCHANGED <<elections, votes, users, profiles, created_by, options, pageVars,
                   viVars, adminVars, apiLast, tallyVars,
                   liveVars, createVars, countVars, formVars, limitVars>>
toggleStorageUpdate(c) ==
    /\ c.stage = "sent"
    /\ is_open' = IsOpenAfterUpdate(AdminUser, c.election_id, ~ c.isOpen)
    /\ adCalls' = Replace(adCalls, c, [c EXCEPT !.stage = "replied"])
    /\ UNCHANGED <<elections, votes, users, profiles, created_by, options, pageVars,
                   viVars, adminVars, apiLast, tallyVars,
                   liveVars, createVars, countVars, formVars, limitVars>>

\* the request of toggle c is lost before storage handles it
toggleNetworkFail(c) ==
    /\ c.stage = "sent"
    /\ adCalls' = Replace(adCalls, c, [c EXCEPT !.stage = "failed"])
    /\ UNCHANGED <<storageVars, pageVars, viVars, adminVars, apiLast, tallyVars,
                   liveVars, createVars, countVars, formVars, limitVars>>

\* handleElectionToggle after its await: fetchElections unless the update threw
toggleReceive(c) ==
    /\ c.stage \in {"replied", "failed"}
    /\ adCalls' = Remove(adCalls, c)
    /\ adElections' = IF c.stage = "replied" THEN ElectionsView(AdminUser) ELSE adElections
    /\ UNCHANGED <<storageVars, pageVars, viVars, apiLast, tallyVars,
                   liveVars, createVars, countVars, formVars, limitVars>>

\* ------------------------------------------------ election creation flows
NoCreate == [stage |-> "idle", flow |-> "none", is_open |-> FALSE, names |-> {},
             election |-> NoId, result |-> "none"]

\* the ids gen_random_uuid() can give a new row of elections
FreshElections == Elections \ elections

\* the toast a flow shows when it ends with result
\* (variant: the catch block shows nothing)
CreateToast_Silent(flow, result) ==
    IF result = "ok"
    THEN (IF flow = "dialog" THEN "Success" ELSE "Election Scheduled")
    ELSE "none"
CreateToast(flow, result) ==
    IF result = "ok"
    THEN (IF flow = "dialog" THEN "Success" ELSE "Election Scheduled")
    ELSE "Error"

\* CreateElectionDialog.handleSubmit up to its first await; the form holds a
\* title (blank or not) and the options names that are not blank
handleSubmit(titleGiven, names) ==
    /\ ~ ceLoading
    /\ IF ~ titleGiven \/ Cardinality(names) < 2
       THEN /\ ceToast' = "Validation Error"
            /\ UNCHANGED <<ceCall, ceLoading>>
       ELSE /\ ceLoading' = TRUE
            /\ ceCall' = [NoCreate EXCEPT !.stage = "election_sent", !.flow = "dialog",
                                          !.is_open = TRUE, !.names = names]
            /\ UNCHANGED ceToast
    /\ UNCHANGED <<storageVars, pageVars, viVars, adminVars, apiLast, tallyVars, liveVars,
                   countVars, formVars, toggleVars, limitVars>>

\* ElectionScheduler.scheduleElection up to its first await; its validation
\* throws inside the try block
scheduleElection(titleGiven, names, datesValid) ==
    /\ ~ ceLoading
    /\ IF ~ titleGiven \/ Cardinality(names) < 2 \/ ~ datesValid
       THEN /\ ceToast' = "Error"
            /\ UNCHANGED <<ceCall, ceLoading>>
       ELSE /\ ceLoading' = TRUE
            /\ ceCall' = [NoCreate EXCEPT !.stage = "election_sent", !.flow = "scheduler",
                                          !.is_open = FALSE, !.names = names]
            /\ UNCHANGED ceToast
    /\ UNCHANGED <<storageVars, pageVars, viVars, adminVars, apiLast, tallyVars, liveVars,
                   countVars, formVars, toggleVars, limitVars>>

\* storage handles the INSERT into elections of the flow
ceStorageInsertElection(e) ==
    /\ ceCall.stage = "election_sent"
    /\ e \in FreshElections
    /\ IF ElectionsInsertPolicy(AdminUser, AdminUser)
       THEN /\ elections' = elections \cup {e}
            /\ is_open' = [is_open EXCEPT ![e] = ceCall.is_open]
            /\ created_by' = [created_by EXCEPT ![e] = AdminUser]
            /\ ceCall' = [ceCall EXCEPT !.stage = "election_replied",
                                        !.election = e, !.result = "ok"]
       ELSE /\ UNCHANGED <<elections, is_open, created_by>>
            /\ ceCall' = [ceCall EXCEPT !.stage = "election_replied", !.result = "rls"]
    /\ UNCHANGED <<votes, users, profiles, options, pageVars, viVars, adminVars,
                   apiLast, tallyVars, liveVars, ceLoading, ceToast, countVars, formVars, toggleVars, limitVars>>

\* storage handles the INSERT into options of the flow
ceStorageInsertOptions ==
    /\ ceCall.stage = "options_sent"
    /\ IF OptionsInsertPolicy(AdminUser)
       THEN /\ options' = options \cup ceCall.names
            /\ ceCall' = [ceCall EXCEPT !.stage = "options_replied", !.result = "ok"]
       ELSE /\ UNCHANGED options
            /\ ceCall' = [ceCall EXCEPT !.stage = "options_replied", !.result = "rls"]
    /\ UNCHANGED <<elections, votes, is_open, users, profiles, created_by, pageVars,
                   viVars, adminVars, apiLast, tallyVars, liveVars, ceLoading, ceToast,
                   countVars, formVars, toggleVars, limitVars>>

\* a request of the flow is lost before storage handles it
ceNetworkFail ==
    /\ ceCall.stage \in {"election_sent", "options_sent"}
    /\ ceCall' = [ceCall EXCEPT
                     !.stage = IF @ = "election_sent" THEN "election_replied"
                               ELSE "options_replied",
                     !.result = "network"]
    /\ UNCHANGED <<storageVars, pageVars, viVars, adminVars, apiLast, tallyVars,
                   liveVars, ceLoading, ceToast, countVars, formVars, toggleVars, limitVars>>

\* the flow resumes after its first await: throw on error, else send the options
ceReceiveElection ==
    /\ ceCall.stage = "election_replied"
    /\ IF ceCall.result = "ok"
       THEN /\ ceCall' = [ceCall EXCEPT !.stage = "options_sent", !.result = "none"]
            /\ UNCHANGED <<ceLoading, ceToast>>
       ELSE /\ ceToast' = CreateToast(ceCall.flow, ceCall.result)
            /\ ceLoading' = FALSE
            /\ ceCall' = NoCreate
    /\ UNCHANGED <<storageVars, pageVars, viVars, adminVars, apiLast, tallyVars, liveVars,
                   countVars, formVars, toggleVars, limitVars>>

\* the flow resumes after its second await: toast, finally, and for the dialog
\* onElectionCreated, which is the dashboard's fetchElections
ceReceiveOptions ==
    /\ ceCall.stage = "options_replied"
    /\ ceToast' = CreateToast(ceCall.flow, ceCall.result)
    /\ ceLoading' = FALSE
    /\ ceCall' = NoCreate
    /\ IF ceCall.result = "ok" /\ ceCall.flow = "dialog"
       THEN adElections' = ElectionsView(AdminUser)
       ELSE UNCHANGED adElections
    /\ IF ceCall.result = "ok"
       THEN formTitle' = "" /\ formOptions' = <<"", "">>
       ELSE UNCHANGED formVars
    /\ UNCHANGED <<storageVars, pageVars, viVars, apiLast, tallyVars, liveVars, countVars, toggleVars, limitVars>>

\* the values of a field of the form: blank ones, and names; a name stands for
\* the row of options it becomes, so the fields of a form hold different names
Blank == {"", " "}
FieldValues == Blank \cup FormOptions
TitleValues == Blank \cup {"T"}

\* String.prototype.trim on the values of a field
Trim(str) == IF str \in Blank THEN "" ELSE str

\* formData.options.filter(option => option.trim())
ValidOptions(fields) ==
    {fields[i] : i \in {j \in DOMAIN fields : Trim(fields[j]) # ""}}

\* addOption
addOption ==
    /\ Len(formOptions) < MaxFields
    /\ formOptions' = Append(formOptions, "")
    /\ UNCHANGED <<storageVars, pageVars, viVars, adminVars, apiLast, tallyVars,
                   liveVars, createVars, countVars, formTitle, toggleVars, limitVars>>

\* removeOption(index)
\* (variant: without the guard on the number of fields)
removeOption_Unguarded(index) ==
    /\ index \in DOMAIN formOptions
    /\ formOptions' = [k \in 1..(Len(formOptions) - 1) |->
                          IF k < index THEN formOptions[k] ELSE formOptions[k + 1]]
    /\ UNCHANGED <<storageVars, pageVars, viVars, adminVars, apiLast, tallyVars,
                   liveVars, createVars, countVars, formTitle, toggleVars, limitVars>>
removeOption(index) ==
    /\ index \in DOMAIN formOptions
    /\ Len(formOptions) > 2
    /\ formOptions' = [k \in 1..(Len(formOptions) - 1) |->
                          IF k < index THEN formOptions[k] ELSE formOptions[k + 1]]
    /\ UNCHANGED <<storageVars, pageVars, viVars, adminVars, apiLast, tallyVars,
                   liveVars, createVars, countVars, formTitle, toggleVars, limitVars>>

\* updateOption(index, value)
updateOption(index, value) ==
    /\ index \in DOMAIN formOptions
    /\ value \in Blank \/ \A k \in DOMAIN formOptions : formOptions[k] # value
    /\ formOptions' = [formOptions EXCEPT ![index] = value]
    /\ UNCHANGED <<storageVars, pageVars, viVars, adminVars, apiLast, tallyVars,
                   liveVars, createVars, countVars, formTitle, toggleVars, limitVars>>

\* onChange of the title field
setTitle(value) ==
    /\ formTitle' = value
    /\ UNCHANGED <<storageVars, pageVars, viVars, adminVars, apiLast, tallyVars,
                   liveVars, createVars, countVars, formOptions, toggleVars, limitVars>>

\* the submit button of a flow with the form as it is
submitForm(flow, datesValid) ==
    IF flow = "dialog"
    THEN handleSubmit(Trim(formTitle) # "", ValidOptions(formOptions))
    ELSE scheduleElection(Trim(formTitle) # "", ValidOptions(formOptions), datesValid)

\* the form as useState leaves it
InitCreate ==
    /\ ceCall = NoCreate /\ ceLoading = FALSE /\ ceToast = "none"
    /\ formTitle = "" /\ formOptions = <<"", "">>

\* ------------------------------------------------------------ useRateLimit
\* the configuration OptimizedElectionCard gives its limiter
maxAttempts == 3
windowMs == 60000

\* the amounts the clock advances by between two events: half a window, and a
\* window and a millisecond
Advances == {windowMs \div 2, windowMs + 1}

\* time passes
rlAdvance(d) ==
    /\ rlNow + d <= MaxWindows * (windowMs + 1)
    /\ rlNow' = rlNow + d
    /\ UNCHANGED <<storageVars, pageVars, viVars, adminVars, apiLast, tallyVars,
                   liveVars, createVars, countVars, formVars, toggleVars,
                   rlAttempts, rlLastReset, rlResult, rlGranted>>

\* checkRateLimit, called by handleVote of the card
checkRateLimit ==
    /\ IF rlNow - rlLastReset > windowMs
       THEN /\ rlAttempts' = 0
            /\ rlLastReset' = rlNow
            /\ rlResult' = TRUE
            /\ rlGranted' = 1
       ELSE IF rlAttempts < maxAttempts
       THEN /\ rlAttempts' = rlAttempts + 1
            /\ rlResult' = TRUE
            /\ rlGranted' = rlGranted + 1
            /\ UNCHANGED rlLastReset
       ELSE /\ rlResult' = FALSE
            /\ UNCHANGED <<rlAttempts, rlLastReset, rlGranted>>
    /\ UNCHANGED <<storageVars, pageVars, viVars, adminVars, apiLast, tallyVars,
                   liveVars, createVars, countVars, formVars, toggleVars, rlNow>>

\* the limiter as useState leaves it, with the clock read at mount as origin
InitLimit ==
    /\ rlAttempts = 0 /\ rlLastReset = 0 /\ rlNow = 0
    /\ rlResult = TRUE /\ rlGranted = 0

\* ------------------------------------------------------- REST endpoint
NoApi == [kind |-> "none"]

\* INSERT INTO votes sent by principal uid
ApiInsertVote(uid, row) ==
    /\ votes' = VotesAfterInsert(uid, row)
    /\ apiLast' = [kind |-> "insert", uid |-> uid, row |-> row,
                   result |-> InsertVoteResult(uid, row)]
    /\ UNCHANGED <<elections, is_open, users, profiles, created_by, options, pageVars, viVars, adminVars, tallyVars, restVars>>

\* UPDATE elections SET is_open = value WHERE id = e sent by principal uid
ApiUpdateElection(uid, e, value) ==
    /\ is_open' = IsOpenAfterUpdate(uid, e, value)
    /\ apiLast' = [kind |-> "update"]
    /\ UNCHANGED <<elections, votes, users, profiles, created_by, options, pageVars, viVars, adminVars, tallyVars, restVars>>

\* INSERT INTO elections (id, is_open, created_by) VALUES (e, value, creator)
\* sent by principal uid
ApiInsertElection(uid, e, value, creator) ==
    /\ e \notin elections
    /\ creator \in users
    /\ IF ElectionsInsertPolicy(uid, creator)
       THEN /\ elections' = elections \cup {e}
            /\ is_open' = [is_open EXCEPT ![e] = value]
            /\ created_by' = [created_by EXCEPT ![e] = creator]
       ELSE UNCHANGED <<elections, is_open, created_by>>
    /\ apiLast' = [kind |-> "insert_election", uid |-> uid,
                   result |-> IF ElectionsInsertPolicy(uid, creator) THEN "ok" ELSE "rls"]
    /\ UNCHANGED <<votes, users, profiles, options, pageVars, viVars, adminVars,
                   tallyVars, restVars>>

\* INSERT INTO options (id, election_id) VALUES (o, OptionElection[o]) sent by
\* principal uid
ApiInsertOption(uid, o) ==
    /\ o \notin options
    /\ OptionElection[o] \in elections
    /\ options' = IF OptionsInsertPolicy(uid) THEN options \cup {o} ELSE options
    /\ apiLast' = [kind |-> "insert_option", uid |-> uid,
                   result |-> IF OptionsInsertPolicy(uid) THEN "ok" ELSE "rls"]
    /\ UNCHANGED <<elections, votes, is_open, users, profiles, created_by,
                   pageVars, viVars, adminVars, tallyVars, restVars>>

\* UPDATE profiles SET role = newRole WHERE user_id = target sent by principal
\* uid: rows the policies hide are not updated and no error is raised
ProfilesAfterUpdate(uid, target, newRole) ==
    IF ProfilesUpdatePolicy(uid, target)
    THEN {IF p.user_id = target THEN [p EXCEPT !.role = newRole] ELSE p : p \in profiles}
    ELSE profiles

ApiUpdateProfile(uid, target, newRole) ==
    /\ profiles' = ProfilesAfterUpdate(uid, target, newRole)
    /\ apiLast' = [kind |-> "update_profile", uid |-> uid, target |-> target,
                   role |-> newRole, result |-> "ok"]
    /\ UNCHANGED <<elections, votes, is_open, users, created_by, options,
                   pageVars, viVars, adminVars, tallyVars, restVars>>

\* INSERT INTO profiles (user_id, role) sent by principal uid
InsertProfileResult(uid, row) ==
    IF ~ ProfilesInsertPolicy(uid, row) THEN "rls"
    ELSE IF ~ ProfilesUnique(row) THEN "unique"
    ELSE "ok"

ApiInsertProfile(uid, row) ==
    /\ row.user_id \in users
    /\ profiles' = IF InsertProfileResult(uid, row) = "ok"
                   THEN profiles \cup {row} ELSE profiles
    /\ apiLast' = [kind |-> "insert_profile", uid |-> uid,
                   result |-> InsertProfileResult(uid, row)]
    /\ UNCHANGED <<elections, votes, is_open, users, created_by, options,
                   pageVars, viVars, adminVars, tallyVars, restVars>>

\* a new row of auth.users: the trigger on_auth_user_created runs
\* handle_new_user() in the same statement
SignUp(id) ==
    /\ id \notin users
    /\ users' = users \cup {id}
    /\ profiles' = profiles \cup {NewUserProfile(id)}
    /\ apiLast' = [kind |-> "signup", uid |-> id, result |-> "ok"]
    /\ UNCHANGED <<elections, votes, is_open, created_by, options,
                   pageVars, viVars, adminVars, tallyVars, restVars>>

\* AdminPromotionHelper.promoteToAdmin of the signed-in user uid; the helper
\* renders for every user whose profile is not an admin's
promoteToAdmin(uid) ==
    /\ uid \in users
    /\ get_user_role(uid) # "admin"
    /\ ApiUpdateProfile(uid, uid, "admin")

\* UPDATE votes SET option_id = o WHERE the row is v, sent by principal uid
ApiUpdateVote(uid, v, o) ==
    /\ v \in votes
    /\ votes' = IF VotesUpdatePolicy(uid, v)
                THEN (votes \ {v}) \cup {[v EXCEPT !.option_id = o]} ELSE votes
    /\ apiLast' = [kind |-> "update_vote", uid |-> uid, row |-> v]
    /\ UNCHANGED <<elections, is_open, users, profiles, created_by, options,
                   pageVars, viVars, adminVars, tallyVars, restVars>>

\* DELETE FROM votes WHERE the row is v, sent by principal uid
ApiDeleteVote(uid, v) ==
    /\ v \in votes
    /\ votes' = IF VotesDeletePolicy(uid, v) THEN votes \ {v} ELSE votes
    /\ apiLast' = [kind |-> "delete_vote", uid |-> uid, row |-> v]
    /\ UNCHANGED <<elections, is_open, users, profiles, created_by, options,
                   pageVars, viVars, adminVars, tallyVars, restVars>>

\* SELECT * FROM votes sent by principal uid: the rows returned
ApiSelectVotes(uid) ==
    /\ apiLast' = [kind |-> "select_votes", uid |-> uid,
                   rows |-> {v \in votes : VotesSelectPolicy(uid, v)}]
    /\ UNCHANGED <<storageVars, pageVars, viVars, adminVars, tallyVars, restVars>>

\* SELECT * FROM elections sent by principal uid: the ids of the rows returned
ApiSelectElections(uid) ==
    /\ apiLast' = [kind |-> "select_elections", uid |-> uid,
                   rows |-> {e \in elections : ElectionsSelectPolicy(uid, e)}]
    /\ UNCHANGED <<storageVars, pageVars, viVars, adminVars, tallyVars, restVars>>

\* ------------------------------------------------------------ tally views
\* options of the election in the order the options query returns them
TallyOptions == <<"A", "B", "C">>
\* option_id of a vote whose option is not among the rows the view holds
OtherOption == "Z"

\* the rows a view builds from the options query and one count query per
\* option: any number of options, any counts
CountRows ==
    UNION {{[i \in 1..n |-> [option_id |-> TallyOptions[i], vote_count |-> cs[i]]] :
               cs \in [1..n -> 0..MaxCount]} : n \in 0..Len(TallyOptions)}

\* rows.reduce((sum, item) => sum + item.vote_count, 0)
RECURSIVE SumCounts(_)
SumCounts(rows) ==
    IF rows = <<>> THEN 0 ELSE Head(rows).vote_count + SumCounts(Tail(rows))

\* a percentage is kept as the fraction num / den
\* LiveVoteCounter.getPercentage
getPercentage(voteCount) ==
    IF lvcTotalVotes > 0 THEN [num |-> voteCount * 100, den |-> lvcTotalVotes]
    ELSE [num |-> 0, den |-> 1]

\* Number.prototype.toFixed(1) of num / den >= 0, as a count of tenths: the
\* nearest tenth, the upper one when num / den lies halfway
toFixed1(num, den) == (20 * num + den) \div (2 * den)

\* ElectionResults.chartData[i].percentage, in tenths
chartPercentage(i) ==
    IF erTotalVotes > 0 THEN toFixed1(erResults[i].vote_count * 100, erTotalVotes)
    ELSE 0

\* the callback of the reduce that picks the leading row
\* (variant: the earlier row is kept on equal counts)
keepLeading_OnTie(prev, current) ==
    IF prev.vote_count >= current.vote_count THEN prev ELSE current
keepLeading(prev, current) ==
    IF prev.vote_count > current.vote_count THEN prev ELSE current

\* rows.reduce(callback, initial)
RECURSIVE reduceLeading(_, _)
reduceLeading(rows, acc) ==
    IF rows = <<>> THEN acc
    ELSE reduceLeading(Tail(rows), keepLeading(acc, Head(rows)))

NoLeader == [option_id |-> "", vote_count |-> 0]
\* LiveVoteCounter.leader
leader == reduceLeading(lvcVoteData, NoLeader)
\* ElectionResults.winner
winner == reduceLeading(erResults, NoLeader)

\* LiveVoteCounter.fetchVoteData
fetchVoteData ==
    /\ lvcVoteData' = optionCounts
    /\ lvcTotalVotes' = SumCounts(optionCounts)
    /\ UNCHANGED <<storageVars, pageVars, viVars, adminVars, apiLast, restVars,
                   optionCounts, erResults, erTotalVotes, vaVoteStats, vaTotalVotes>>

\* LiveVoteCounter's onInsert for a notification whose row names option_id
\* (variant: the total is not advanced)
onInsert_TotalKept(option_id) ==
    /\ lvcTotalVotes < MaxLiveTotal
    /\ lvcVoteData' = [i \in DOMAIN lvcVoteData |->
                          IF lvcVoteData[i].option_id = option_id
                          THEN [lvcVoteData[i] EXCEPT !.vote_count = @ + 1]
                          ELSE lvcVoteData[i]]
    /\ UNCHANGED <<storageVars, pageVars, viVars, adminVars, apiLast, lvcTotalVotes,
                   optionCounts, erResults, erTotalVotes, vaVoteStats, vaTotalVotes,
                   createVars, countVars, formVars, toggleVars, limitVars>>
onInsert(option_id) ==
    /\ lvcTotalVotes < MaxLiveTotal
    /\ lvcVoteData' = [i \in DOMAIN lvcVoteData |->
                          IF lvcVoteData[i].option_id = option_id
                          THEN [lvcVoteData[i] EXCEPT !.vote_count = @ + 1]
                          ELSE lvcVoteData[i]]
    /\ lvcTotalVotes' = lvcTotalVotes + 1
    /\ UNCHANGED <<storageVars, pageVars, viVars, adminVars, apiLast,
                   optionCounts, erResults, erTotalVotes, vaVoteStats, vaTotalVotes,
                   createVars, countVars, formVars, toggleVars, limitVars>>

\* ElectionResults.fetchResults
fetchResults ==
    /\ erResults' = optionCounts
    /\ erTotalVotes' = SumCounts(optionCounts)
    /\ UNCHANGED <<storageVars, pageVars, viVars, adminVars, apiLast, restVars,
                   optionCounts, lvcVoteData, lvcTotalVotes, vaVoteStats, vaTotalVotes>>

\* the embedded votes(count) of an option row: one row that holds the count
EmbeddedVotes(row) == <<[count |-> row.vote_count]>>

\* VotingAnalytics.fetchAnalytics: vote_count is the length of the embedded
\* array
fetchAnalytics ==
    LET stats == [i \in DOMAIN optionCounts |->
                     [option_name |-> optionCounts[i].option_id,
                      vote_count |-> Len(EmbeddedVotes(optionCounts[i]))]]
        total == SumCounts(stats)
    IN  /\ vaVoteStats' = [i \in DOMAIN stats |->
               [option_name |-> stats[i].option_name,
                vote_count |-> stats[i].vote_count,
                percentage |-> IF total > 0
                               THEN [num |-> stats[i].vote_count * 100, den |-> total]
                               ELSE [num |-> 0, den |-> 1]]]
        /\ vaTotalVotes' = total
        /\ UNCHANGED <<storageVars, pageVars, viVars, adminVars, apiLast, restVars,
                       optionCounts, lvcVoteData, lvcTotalVotes, erResults, erTotalVotes>>

\* the results page is shown to an admin, for the election of its route
ResultsViewer == "a1"
ResultsElection == "e1"

\* the order in which the options query returns the rows of public.options
OptionOrder == <<"o1", "o2", "o3">>

\* count query .eq('option_id', o) of viewer uid: the rows uid may read
\* (variant: the query without its option filter)
CountVotes_AnyOption(uid, o) ==
    Cardinality({v \in votes : VotesSelectPolicy(uid, v)})
CountVotes(uid, o) ==
    Cardinality({v \in votes : v.option_id = o /\ VotesSelectPolicy(uid, v)})

\* the rows fetchResults builds for election e from the options query and one
\* count query per option
StoredCounts(uid, e) ==
    LET os == SelectSeq(OptionOrder, LAMBDA o : o \in VisibleOptions(uid, e))
    IN  [i \in 1..Len(os) |->
            [option_id |-> os[i], vote_count |-> CountVotes(uid, os[i])]]

\* the queries of ElectionResults.fetchResults, run against storage
queryResults ==
    /\ optionCounts' = StoredCounts(ResultsViewer, ResultsElection)
    /\ UNCHANGED <<storageVars, pageVars, viVars, adminVars, apiLast, restVars,
                   lvcVoteData, lvcTotalVotes, erResults, erTotalVotes,
                   vaVoteStats, vaTotalVotes>>

\* ------------------------------------------------------- realtime channel
NoChannel == [live |-> FALSE, since |-> {}]

\* the inserted rows the postgres_changes subscription of LiveVoteCounter has
\* still to announce to viewer uid under filter election_id=eq.e: rows inserted
\* while the channel is live, that uid may read
Undelivered(uid, e) ==
    IF ~ lvcChannel.live THEN {}
    ELSE {v \in votes \ (lvcChannel.since \cup lvcSeen) :
             v.election_id = e /\ VotesSelectPolicy(uid, v)}

\* the channel useRealtime's effect makes: supabase.channel(...).on(...).subscribe()
Subscribed == [live |-> TRUE, since |-> votes]

\* LiveVoteCounter mounts: its useState values, then useRealtime's effect
lvcMount ==
    /\ ~ lvcMounted
    /\ lvcMounted' = TRUE
    /\ lvcVoteData' = <<>> /\ lvcTotalVotes' = 0 /\ lvcRecentVotes' = 0
    /\ lvcChannel' = Subscribed
    /\ lvcSeen' = {}
    /\ UNCHANGED <<storageVars, pageVars, viVars, adminVars, apiLast, optionCounts,
                   erResults, erTotalVotes, vaVoteStats, vaTotalVotes, lvcTimers,
                   createVars, countVars, formVars, toggleVars, limitVars>>

\* a render changes a dependency of useRealtime's effect (onInsert is a new
\* function on every render): the cleanup removes the channel, then the effect
\* subscribes again
lvcResubscribe ==
    /\ lvcMounted
    /\ lvcChannel' = Subscribed
    /\ lvcSeen' = {}
    /\ UNCHANGED <<storageVars, pageVars, viVars, adminVars, apiLast, tallyVars,
                   lvcMounted, lvcRecentVotes, lvcTimers, createVars, countVars, formVars, toggleVars, limitVars>>

\* LiveVoteCounter unmounts: the cleanup of useRealtime's effect calls
\* supabase.removeChannel; nothing clears the timers
lvcUnmount ==
    /\ lvcMounted
    /\ lvcMounted' = FALSE
    /\ lvcChannel' = NoChannel
    /\ UNCHANGED <<storageVars, pageVars, viVars, adminVars, apiLast, tallyVars,
                   lvcSeen, lvcRecentVotes, lvcTimers, createVars, countVars, formVars, toggleVars, limitVars>>

\* the channel announces inserted row v: handleChange calls onInsert(payload),
\* which also counts the vote as recent and starts a timer of 3 seconds
lvcNotify(v) ==
    /\ v \in Undelivered(ResultsViewer, ResultsElection)
    /\ lvcSeen' = lvcSeen \cup {v}
    /\ lvcRecentVotes' = lvcRecentVotes + 1
    /\ lvcTimers' = lvcTimers + 1
    /\ UNCHANGED <<lvcChannel, lvcMounted>>
    /\ onInsert(v.option_id)

\* a timer of onInsert expires: () => setRecentVotes(0)
lvcTimerFire ==
    /\ lvcTimers > 0
    /\ lvcTimers' = lvcTimers - 1
    /\ lvcRecentVotes' = 0
    /\ UNCHANGED <<storageVars, pageVars, viVars, adminVars, apiLast, tallyVars,
                   lvcChannel, lvcSeen, lvcMounted, createVars, countVars, formVars, toggleVars, limitVars>>

\* no component is mounted: no channel, no timer
InitLive ==
    /\ lvcChannel = NoChannel /\ lvcSeen = {}
    /\ lvcMounted = FALSE /\ lvcRecentVotes = 0 /\ lvcTimers = 0

\* the three views as their useState calls leave them
InitViews ==
    /\ lvcVoteData = <<>> /\ lvcTotalVotes = 0
    /\ erResults = <<>> /\ erTotalVotes = 0
    /\ vaVoteStats = <<>> /\ vaTotalVotes = 0

\* ------------------------------------------------------------ specifications
InitStorage(els) ==
    /\ elections = els
    /\ votes = {}
    /\ is_open = [e \in Elections |-> e \in els]
    /\ users = Users
    /\ profiles = {[user_id |-> u, role |-> IF u \in Admins THEN "admin" ELSE "voter"] :
                       u \in Users}
    /\ created_by = [e \in Elections |-> IF e \in els THEN CreatedBy[e] ELSE NoId]
    /\ options = {o \in Options : OptionElection[o] \in els}

InitClients ==
    /\ InitPage /\ InitVi /\ InitAdmin /\ apiLast = NoApi /\ InitLive /\ InitCreate
    /\ InitLimit

\* no results page is open
InitNoTally == optionCounts = <<>> /\ InitViews

\* one open election with two options
Init == InitStorage({"e1"}) /\ InitClients /\ InitNoTally

PageNext ==
    \/ \E e \in Elections, o \in Options : HandleVoteClick(e, o)
    \/ \E e \in Elections : CancelVote(e)
    \/ \E e \in Elections : ConfirmVote(e)
    \/ \E c \in BagToSet(calls) : PgStorageInsert(c)
    \/ \E c \in BagToSet(calls) : PgNetworkFail(c)
    \/ \E c \in BagToSet(calls) : PgClientReceive(c)
    \/ \E c \in BagToSet(calls) : CardSettle(c)
    \/ PageReload

ViNext ==
    \/ \E o \in Options : HandleOptionSelect(o)
    \/ ViCancel
    \/ ViConfirmVote
    \/ \E c \in BagToSet(viCalls) : ViStorageInsert(c)
    \/ \E c \in BagToSet(viCalls) : ViNetworkFail(c)
    \/ \E c \in BagToSet(viCalls) : ViClientReceive(c)
    \/ ViReload

AdminNext == \E e \in Elections : handleElectionToggle(e)

\* two browser sessions of one voter and the admin's dashboard
Next == PageNext \/ ViNext \/ AdminNext

Spec == Init /\ [][Next]_vars

\* the REST endpoint called with arbitrary principals and rows, two elections
InitApi == InitStorage(Elections) /\ InitClients /\ InitNoTally

ApiNext ==
    \/ \E uid \in Principals, row \in VoteRows : ApiInsertVote(uid, row)
    \/ \E uid \in Principals, e \in Elections, value \in BOOLEAN :
          ApiUpdateElection(uid, e, value)

SpecApi == InitApi /\ [][ApiNext]_vars

\* the REST endpoint for elections, options and profiles, the promotion helper
\* and the admin's dashboard; identities sign up
AccessNext ==
    \/ \E id \in NewUsers : SignUp(id)
    \/ \E uid \in users \cup {NoUser}, e \in Elections, value \in BOOLEAN, creator \in users :
          ApiInsertElection(uid, e, value, creator)
    \/ \E uid \in users \cup {NoUser}, e \in Elections, value \in BOOLEAN :
          ApiUpdateElection(uid, e, value)
    \/ \E uid \in users \cup {NoUser}, o \in Options : ApiInsertOption(uid, o)
    \/ \E uid \in users \cup {NoUser}, target \in users, newRole \in Roles :
          ApiUpdateProfile(uid, target, newRole)
    \/ \E uid \in users \cup {NoUser}, row \in [user_id : users, role : Roles] :
          ApiInsertProfile(uid, row)
    \/ \E uid \in users : promoteToAdmin(uid)
    \/ AdminNext

SpecAccess == Init /\ [][AccessNext]_vars

\* the REST endpoint for votes: every statement on votes, reads of elections,
\* and the changes of is_open and of roles that decide what a principal reads
LedgerNext ==
    \/ \E id \in NewUsers : SignUp(id)
    \/ \E uid \in users, row \in VoteRows : ApiInsertVote(uid, row)
    \/ \E uid \in users, v \in votes, o \in Options : ApiUpdateVote(uid, v, o)
    \/ \E uid \in users, v \in votes : ApiDeleteVote(uid, v)
    \/ \E uid \in users : ApiSelectVotes(uid)
    \/ \E uid \in users : ApiSelectElections(uid)
    \/ \E uid \in users, e \in Elections, value \in BOOLEAN :
          ApiUpdateElection(uid, e, value)
    \/ \E uid \in users : promoteToAdmin(uid)

SpecLedger == Init /\ [][LedgerNext]_vars

\* the admin creates elections from the dashboard and toggles them, while the
\* admin's own role is changed
CreateNext ==
    \/ \E titleGiven \in BOOLEAN, names \in SUBSET FormOptions :
          handleSubmit(titleGiven, names)
    \/ \E titleGiven \in BOOLEAN, names \in SUBSET FormOptions, datesValid \in BOOLEAN :
          scheduleElection(titleGiven, names, datesValid)
    \/ \E e \in Elections : ceStorageInsertElection(e)
    \/ ceStorageInsertOptions
    \/ ceNetworkFail
    \/ ceReceiveElection
    \/ ceReceiveOptions
    \/ \E newRole \in Roles : ApiUpdateProfile(AdminUser, AdminUser, newRole)

SpecCreate == Init /\ [][CreateNext \/ AdminNext]_vars

\* the dashboard with its toggles split at their awaits, over two elections
SpecToggle ==
    InitApi /\ [][\/ \E e \in Elections : toggleClick(e)
                  \/ \E c \in BagToSet(adCalls) : toggleStorageUpdate(c)
                  \/ \E c \in BagToSet(adCalls) : toggleNetworkFail(c)
                  \/ \E c \in BagToSet(adCalls) : toggleReceive(c)]_vars

\* the votes of a card go through its limiter while time passes and the
\* dashboard toggles
SpecLimit ==
    Init /\ [][\/ \E d \in Advances : rlAdvance(d)
               \/ checkRateLimit
               \/ AdminNext]_vars

\* the admin fills the form of a creation flow and submits it
SpecForm ==
    Init /\ [][\/ addOption
               \/ \E index \in 1..MaxFields : removeOption(index)
               \/ \E index \in 1..MaxFields, value \in FieldValues : updateOption(index, value)
               \/ \E value \in TitleValues : setTitle(value)
               \/ \E flow \in {"dialog", "scheduler"}, datesValid \in BOOLEAN :
                     submitForm(flow, datesValid)
               \/ \E e \in Elections : ceStorageInsertElection(e)
               \/ ceStorageInsertOptions
               \/ ceNetworkFail
               \/ ceReceiveElection
               \/ ceReceiveOptions]_vars

\* the voting interface with its vote count: fetches and notifications
CountNext ==
    \/ \E f \in BagToSet(viFetches) : viFetchExecute(f)
    \/ \E f \in BagToSet(viFetches) : viFetchReceive(f)
    \/ \E v \in votes : viNotify(v)

SpecCount == Init /\ [][ViNext \/ CountNext]_vars

\* the admin schedules an election and toggles elections on the dashboard
\* while the voter sends votes for every election that exists
ScheduleNext ==
    \/ \E titleGiven \in BOOLEAN, names \in SUBSET FormOptions, datesValid \in BOOLEAN :
          scheduleElection(titleGiven, names, datesValid)
    \/ \E e \in Elections : ceStorageInsertElection(e)
    \/ ceStorageInsertOptions
    \/ ceNetworkFail
    \/ ceReceiveElection
    \/ ceReceiveOptions
    \/ \E row \in VoteRows :
          /\ row.user_id = PageUser
          /\ OptionElection[row.option_id] = row.election_id
          /\ ApiInsertVote(PageUser, row)
    \/ AdminNext

SpecSchedule == Init /\ [][ScheduleNext]_vars

\* the views of a results page over any rows the queries can return
InitTally ==
    /\ InitStorage({"e1"}) /\ InitClients
    /\ optionCounts \in CountRows
    /\ InitViews

TallyNext ==
    \/ fetchVoteData
    \/ \E o \in {TallyOptions[i] : i \in DOMAIN TallyOptions} \cup {OtherOption} :
          (onInsert(o) /\ UNCHANGED liveVars)
    \/ fetchResults
    \/ fetchAnalytics

SpecTally == InitTally /\ [][TallyNext]_vars

\* the Elections page of the voter and the results view of the admin, both
\* over storage
ResultsNext == queryResults \/ fetchResults

SpecResults == Init /\ [][PageNext \/ ResultsNext]_vars

\* the results page with its live counter, while the voter votes
LiveNext ==
    \/ lvcMount
    \/ lvcResubscribe
    \/ lvcUnmount
    \/ lvcTimerFire
    \/ \E v \in votes : lvcNotify(v)
    \/ queryResults
    \/ fetchVoteData

SpecLive == Init /\ [][PageNext \/ LiveNext]_vars

\* ------------------------------------------------------------- properties
\* calls of a bag that are at stage st, counted with their multiplicity
StageCount(bag, st) ==
    LET at == {c \in BagToSet(bag) : c.stage = st}
    IN  IF at = {} THEN 0 ELSE BagCardinality([c \in at |-> bag[c]])

\* inserts for election e a component has issued and not yet seen settle
Outstanding(bag, e) ==
    LET out == {c \in BagToSet(bag) :
                   c.election_id = e /\ c.stage \in {"sent", "replied"}}
    IN  IF out = {} THEN 0 ELSE BagCardinality([c \in out |-> bag[c]])

\* C1: for every voter and election, storage holds at most one vote row with
\* that (election_id, user_id), whatever the interleaving of the sessions'
\* inserts was
C1_OneVotePerVoter ==
    \A v \in votes, w \in votes :
        (v.election_id = w.election_id /\ v.user_id = w.user_id) => v = w

\* two sessions of the voter had an insert in flight at once, both after a
\* local check that reported "not voted"; one was accepted, one rejected
C1_Witness ==
    \E c \in BagToSet(calls), d \in BagToSet(viCalls) :
        /\ c.stage = "replied" /\ d.stage = "replied"
        /\ c.election_id = d.election_id
        /\ {c.result, d.result} = {"ok", "unique"}

\* C2: an insert that storage handles while the election of its row is closed
\* is rejected and leaves the set of vote rows as it was
C2_ClosedElectionRejects ==
    [][(apiLast'.kind = "insert" /\ ~ is_open[apiLast'.row.election_id])
          => (votes' = votes /\ apiLast'.result = "rls")]_vars

\* a voter's insert of an own row, for a closed election, was rejected
C2_Witness ==
    /\ apiLast.kind = "insert"
    /\ apiLast.uid = apiLast.row.user_id
    /\ apiLast.uid \in Voters
    /\ ~ is_open[apiLast.row.election_id]
    /\ apiLast.result = "rls"
    /\ apiLast.row \notin votes

\* C3: when storage executes the insert of an outstanding call after the
\* election was closed, the insert is rejected and no vote row is added, also
\* when the election was open as the request left and the ballot shows it open
C3_ToggleMidFlightRejects ==
    [][/\ \A c \in BagToSet(viCalls) :
             (ViStorageInsert(c) /\ ~ is_open[c.election_id])
                => /\ votes' = votes
                   /\ viCalls' = Replace(viCalls, c,
                          [c EXCEPT !.stage = "replied", !.result = "rls"])
       /\ \A c \in BagToSet(calls) :
             (PgStorageInsert(c) /\ ~ is_open[c.election_id])
                => /\ votes' = votes
                   /\ calls' = Replace(calls, c,
                          [c EXCEPT !.stage = "replied", !.result = "rls"])]_vars

\* the admin closed the election while an insert was on its way: the request
\* left while the election was open, the ballot still shows it open, and
\* storage rejected the insert
C3_Witness ==
    \E c \in BagToSet(viCalls) :
        /\ c.stage = "replied"
        /\ c.open_when_sent
        /\ c.result = "rls"
        /\ viElection = "open"
        /\ ~ is_open[c.election_id]
        /\ adElections[c.election_id] = "closed"

\* C4: every stored vote row names an option of the election it names
C4_OptionOfSameElection ==
    \A v \in votes : OptionElection[v.option_id] = v.election_id

\* C5: a vote row enters storage only through an insert whose authenticated
\* principal is the row's user_id
C5_OwnUserIdOnly ==
    [][\A r \in votes' \ votes :
          /\ apiLast'.kind = "insert"
          /\ apiLast'.row = r
          /\ apiLast'.uid = r.user_id]_vars

\* a user's insert of a row carrying another user's id, for an open election
\* in which that user has no vote, was rejected
C5_Witness ==
    /\ apiLast.kind = "insert"
    /\ apiLast.uid \in Users
    /\ apiLast.uid # apiLast.row.user_id
    /\ is_open[apiLast.row.election_id]
    /\ ~ \E v \in votes : /\ v.election_id = apiLast.row.election_id
                           /\ v.user_id = apiLast.row.user_id
    /\ apiLast.result = "rls"

\* C6: after an insert was rejected as a duplicate, the ballot does not show
\* its generic error notification
C6_DuplicateNotGenericError ==
    [][/\ \A c \in BagToSet(calls) :
             (PgClientReceive(c) /\ c.result = "unique")
                => \E d \in BagToSet(calls') :
                      /\ calls' = Replace(calls, c, d)
                      /\ d.stage = "refetch"
                      /\ "Error" \notin d.toasts
       /\ \A c \in BagToSet(viCalls) :
             (ViClientReceive(c) /\ c.result = "unique")
                => viToast' # "Failed to cast vote. Please try again."]_vars

\* C7: a ballot has at most one insert outstanding per election
C7_OneOutstandingInsert ==
    \A e \in Elections : Outstanding(calls, e) <= 1 /\ Outstanding(viCalls, e) <= 1

\* C8: a step that sends an insert is a confirmation in the ballot's dialog,
\* and it sends exactly one insert; nothing else, a failure included, puts a
\* request on its way to storage
C8_NoAutomaticRetry ==
    [][/\ StageCount(calls', "sent") > StageCount(calls, "sent")
             => /\ \E e \in Elections :
                       card[e].showVoteConfirm /\ ~ card'[e].showVoteConfirm
                /\ StageCount(calls', "sent") = StageCount(calls, "sent") + 1
                /\ BagCardinality(calls') = BagCardinality(calls) + 1
       /\ StageCount(viCalls', "sent") > StageCount(viCalls, "sent")
             => /\ showConfirmDialog /\ ~ showConfirmDialog'
                /\ StageCount(viCalls', "sent") = StageCount(viCalls, "sent") + 1
                /\ BagCardinality(viCalls') = BagCardinality(viCalls) + 1]_vars

\* both ballots have handled a failed insert, a vote is stored, the election
\* is closed, and no request is on its way
C8_Witness ==
    /\ viToast = "Failed to cast vote. Please try again."
    /\ viCalls = EmptyBag /\ ~ isVoting
    /\ \E c \in BagToSet(calls) : c.stage = "refetch" /\ "Error" \in c.toasts
    /\ StageCount(calls, "sent") = 0
    /\ votes # {} /\ ~ is_open["e1"]

\* a percentage lies in [0, 100]
InRange(p) == p.den > 0 /\ 0 <= p.num /\ p.num <= 100 * p.den

\* the fraction p is count / total * 100, and 0 when total is 0
IsShare(p, count, total) ==
    IF total > 0 THEN p.num * total = count * 100 * p.den ELSE p.num = 0

\* the tenths t are count / total * 100 rounded to one decimal, and 0 when
\* total is 0
IsRoundedShare(t, count, total) ==
    IF total > 0
    THEN /\ 2 * (t * total - 1000 * count) <= total
         /\ 2 * (1000 * count - t * total) <= total
    ELSE t = 0

\* C9: in the live counter, the results view and the analytics view every
\* percentage is the option's count over the view's total times 100 (in the
\* results view rounded to one decimal), lies in [0, 100], and is 0 when the
\* total is 0
C9_PercentagesInRange ==
    /\ \A i \in DOMAIN lvcVoteData :
          LET p == getPercentage(lvcVoteData[i].vote_count)
          IN  InRange(p) /\ IsShare(p, lvcVoteData[i].vote_count, lvcTotalVotes)
    /\ InRange(getPercentage(leader.vote_count))
    /\ \A i \in DOMAIN erResults :
          /\ chartPercentage(i) \in 0..1000
          /\ IsRoundedShare(chartPercentage(i), erResults[i].vote_count, erTotalVotes)
    /\ \A i \in DOMAIN vaVoteStats :
          /\ InRange(vaVoteStats[i].percentage)
          /\ IsShare(vaVoteStats[i].percentage, vaVoteStats[i].vote_count, vaTotalVotes)

\* all three views show a tally with votes, and the live counter has counted
\* realtime notifications on top of the counts it fetched
C9_Witness ==
    /\ lvcVoteData = [optionCounts EXCEPT ![1].vote_count = @ + 2]
    /\ lvcTotalVotes = SumCounts(optionCounts) + 3
    /\ SumCounts(optionCounts) > 0
    /\ erResults = optionCounts /\ erTotalVotes > 0
    /\ vaVoteStats # <<>>

\* the first row of rows that holds the largest count
FirstMax(rows) ==
    LET i == CHOOSE j \in DOMAIN rows :
                 /\ \A k \in DOMAIN rows : rows[k].vote_count <= rows[j].vote_count
                 /\ \A k \in 1..(j - 1) : rows[k].vote_count < rows[j].vote_count
    IN  rows[i]

\* the last row of rows that holds the largest count
LastMax(rows) ==
    LET i == CHOOSE j \in DOMAIN rows :
                 /\ \A k \in DOMAIN rows : rows[k].vote_count <= rows[j].vote_count
                 /\ \A k \in (j + 1)..Len(rows) : rows[k].vote_count < rows[j].vote_count
    IN  rows[i]

PizzaVote == [election_id |-> "e1", option_id |-> "o1", user_id |-> "u1"]
PizzaTally == <<[option_id |-> "o1", vote_count |-> 1],
                [option_id |-> "o2", vote_count |-> 0]>>

\* C11: with the one vote for Pizza stored, the queries of the results view
\* return Pizza 1 and Sushi 0 and the view then shows 100% and 0% of a total
\* of 1; an insert of the same voter for Sushi is rejected as a duplicate and
\* leaves the votes, and what the queries return, as they were
C11_EndToEndTally ==
    [][/\ (votes = {PizzaVote} /\ queryResults) => optionCounts' = PizzaTally
       /\ (optionCounts = PizzaTally /\ fetchResults)
             => /\ erResults' = PizzaTally /\ erTotalVotes' = 1
                /\ chartPercentage(1)' = 1000 /\ chartPercentage(2)' = 0
       /\ \A c \in BagToSet(calls) :
             (votes = {PizzaVote} /\ c.option_id = "o2" /\ PgStorageInsert(c))
                => /\ votes' = votes
                   /\ calls' = Replace(calls, c,
                          [c EXCEPT !.stage = "replied", !.result = "unique"])
                   /\ StoredCounts(ResultsViewer, ResultsElection)'
                        = StoredCounts(ResultsViewer, ResultsElection)]_vars

\* the vote for Pizza is stored, the voter's insert for Sushi came back
\* rejected as a duplicate, and the results view shows Pizza 1, Sushi 0
C11_Witness ==
    /\ votes = {PizzaVote}
    /\ \E c \in BagToSet(calls) :
          c.stage = "replied" /\ c.option_id = "o2" /\ c.result = "unique"
    /\ optionCounts = PizzaTally
    /\ erResults = PizzaTally /\ erTotalVotes = 1
    /\ chartPercentage(1) = 1000 /\ chartPercentage(2) = 0

\* C12: when a realtime notification of an inserted vote is handled, the
\* displayed counts and total become the counts recomputed from storage
C12_NotifyRecomputes ==
    [][\A v \in votes :
          lvcNotify(v)
             => /\ lvcVoteData' = StoredCounts(ResultsViewer, ResultsElection)'
                /\ lvcTotalVotes' =
                      SumCounts(StoredCounts(ResultsViewer, ResultsElection))']_vars

\* the principals a request can carry: a signed-up identity or none
Callers == users \cup {NoUser}

\* a request of principal uid that writes a row of elections or options
WritesElectionOrOption(uid) ==
    \/ \E e \in Elections, value \in BOOLEAN, creator \in users :
          ApiInsertElection(uid, e, value, creator)
    \/ \E e \in Elections, value \in BOOLEAN : ApiUpdateElection(uid, e, value)
    \/ \E o \in Options : ApiInsertOption(uid, o)
    \/ uid = AdminUser /\ \E e \in Elections : handleElectionToggle(e)

\* C13: every step that inserts or updates a row of elections or inserts a row
\* of options is a request of a principal whose role is admin when it is
\* handled, and is the request of no principal with another role
C13_AdminOnlyWrites ==
    [][<<elections, is_open, created_by, options>>' # <<elections, is_open, created_by, options>>
          => /\ \E uid \in users :
                   get_user_role(uid) = "admin" /\ WritesElectionOrOption(uid)
             /\ \A uid \in Callers :
                   get_user_role(uid) # "admin" => ~ WritesElectionOrOption(uid)]_vars

\* an admin has closed e1, created e2 and added its option, while a voter
\* exists whose requests were handled too
C13_Witness ==
    /\ elections = Elections
    /\ ~ is_open["e1"]
    /\ "o3" \in options
    /\ apiLast.kind = "insert_option" /\ apiLast.result = "ok"
    /\ get_user_role(apiLast.uid) = "admin"
    /\ \E u \in users : get_user_role(u) = "voter"

\* C14: an UPDATE of is_open sent by a principal whose role is admin takes
\* effect on any row of elections, whoever created it
C14_AnyAdminUpdates ==
    [][\A uid \in users, e \in elections, value \in BOOLEAN :
          (get_user_role(uid) = "admin" /\ ApiUpdateElection(uid, e, value))
             => is_open'[e] = value]_vars

\* C15: a SELECT on elections by a principal whose role is voter returns only
\* open elections, and a SELECT on votes by that principal returns only rows
\* whose user_id is the principal's own
C15_VoterReads ==
    [][\A uid \in users :
          get_user_role(uid) = "voter"
             => /\ ApiSelectElections(uid) => \A e \in apiLast'.rows : is_open[e]
                /\ ApiSelectVotes(uid) => \A v \in apiLast'.rows : v.user_id = uid]_vars

\* a voter has read votes and got its own row while another voter's row is
\* stored
C15_Witness ==
    /\ apiLast.kind = "select_votes"
    /\ get_user_role(apiLast.uid) = "voter"
    /\ apiLast.rows # {}
    /\ \E v \in votes : v.user_id # apiLast.uid /\ get_user_role(v.user_id) = "voter"

\* C16: no step removes a row of votes or changes one: votes only grows
C16_VotesOnlyGrow == [][votes \subseteq votes']_vars

\* the owner of a stored vote has sent a DELETE for it and the row is still
\* stored
C16_Witness ==
    /\ apiLast.kind = "delete_vote"
    /\ apiLast.uid = apiLast.row.user_id
    /\ apiLast.row \in votes

\* C17: when a principal whose role is voter runs promoteToAdmin, storage
\* applies the update and the principal's role is admin afterwards, whatever
\* the roles of the other principals are
C17_SelfPromotion ==
    [][\A uid \in users :
          (get_user_role(uid) = "voter" /\ promoteToAdmin(uid))
             => /\ get_user_role(uid)' = "admin"
                /\ \A other \in users \ {uid} :
                      get_user_role(other)' = get_user_role(other)]_vars

\* a voter has promoted itself while no other principal is an admin
C17_Witness ==
    /\ apiLast.kind = "update_profile"
    /\ apiLast.uid \in Voters
    /\ get_user_role(apiLast.uid) = "admin"
    /\ \A other \in users \ {apiLast.uid} : get_user_role(other) = "voter"

\* the user_ids that have a profile
ProfileOwners == {p.user_id : p \in profiles}

\* C18: a new identity gets exactly one profile, with role voter, in the step
\* that creates it; every profile row of a user_id that had none is created
\* with role voter; no user_id ever has two profiles
C18_OneVoterProfile ==
    /\ \A p, q \in profiles : p.user_id = q.user_id => p = q
    /\ [][/\ \A id \in NewUsers :
                SignUp(id) => profiles' \ profiles = {[user_id |-> id, role |-> "voter"]}
          /\ \A p \in profiles' : p.user_id \notin ProfileOwners => p.role = "voter"
          /\ \A p, q \in profiles' : p.user_id = q.user_id => p = q
          /\ users' = ProfileOwners']_vars

\* the identity that signed up has its one profile, and its own INSERT of a
\* second profile was rejected by the unique index
C18_Witness ==
    /\ \E id \in NewUsers :
          /\ id \in users
          /\ apiLast.kind = "insert_profile" /\ apiLast.uid = id
          /\ apiLast.result = "unique"
          /\ Cardinality({p \in profiles : p.user_id = id}) = 1

\* the rows of options that belong to election e
OptionsOf(e) == {o \in options : OptionElection[o] = e}

\* C19: the two inserts of a creation flow are separate steps, and when the
\* flow resumes after an options insert that failed, the election row it
\* inserted stays in storage without options, nothing in storage is undone,
\* and the flow shows its error toast; no step removes an election
C19_PartialCreation ==
    [][/\ (ceCall.stage = "options_replied" /\ ceCall.result # "ok" /\ ceReceiveOptions)
             => /\ ceCall.election \in elections'
                /\ OptionsOf(ceCall.election)' = {}
                /\ UNCHANGED storageVars
                /\ ceToast' = "Error"
       /\ \A e \in Elections : ceStorageInsertElection(e) => UNCHANGED options
       /\ ceStorageInsertOptions => UNCHANGED elections
       /\ elections \subseteq elections']_vars

\* the flow has ended with its error toast and the election it inserted is
\* stored without options
C19_Witness ==
    /\ ceCall = NoCreate /\ ~ ceLoading
    /\ ceToast = "Error"
    /\ "e2" \in elections /\ created_by["e2"] = AdminUser
    /\ OptionsOf("e2") = {}

\* C20: no channel of the live counter is live while the counter is not
\* mounted, unmounting removes the channel, and no code of its notification
\* handling (onInsert, and the callback onInsert hands to setTimeout) runs
\* while the counter is not mounted
C20_NothingRunsAfterTeardown ==
    /\ (~ lvcMounted => ~ lvcChannel.live)
    /\ [][/\ ~ lvcMounted' => ~ lvcChannel'.live
          /\ \A v \in votes : lvcNotify(v) => lvcMounted
          /\ lvcTimerFire => lvcMounted]_vars

\* C21: while a vote insert of a component is issued and has not settled, the
\* component shows its pending state: the card of the election has a
\* votingOptionId, the voting interface has isVoting
C21_PendingUntilSettled ==
    /\ \A c \in BagToSet(calls) :
          c.stage \in {"sent", "replied"} => card[c.election_id].votingOptionId # NoOption
    /\ \A c \in BagToSet(viCalls) : isVoting

\* C22: the election row a scheduler flow inserts is closed; a closed election
\* becomes open only in a step that is the admin's toggle of that election;
\* and every vote row storage accepts is for an election that is open then
C22_ScheduledStaysClosed ==
    [][/\ \A e \in Elections :
             (ceCall.flow = "scheduler" /\ ceStorageInsertElection(e) /\ e \in elections')
                => ~ is_open'[e]
       /\ \A e \in elections :
             (~ is_open[e] /\ is_open'[e])
                => (handleElectionToggle(e) /\ get_user_role(AdminUser) = "admin")
       /\ \A row \in votes' \ votes : is_open[row.election_id]]_vars

\* the scheduled election is stored with its options, still closed, and the
\* voter's insert for it was rejected
C22_Witness ==
    /\ "e2" \in elections /\ ~ is_open["e2"]
    /\ OptionsOf("e2") # {}
    /\ ceToast = "Election Scheduled"
    /\ apiLast.kind = "insert" /\ apiLast.row.election_id = "e2"
    /\ apiLast.result = "rls"
    /\ ~ \E v \in votes : v.election_id = "e2"

\* the notifications that tell the voter the vote was stored
SuccessToasts == {"Vote Submitted", "Vote Recorded", "Vote cast successfully!"}

\* C23: when a component handles the reply of an insert that storage did not
\* accept, it shows none of the success notifications for that submission
C23_SuccessOnlyIfAccepted ==
    [][/\ \A c \in BagToSet(calls) :
             (c.stage = "replied" /\ c.result # "ok" /\ PgClientReceive(c))
                => \A d \in BagToSet(calls') \ BagToSet(calls) :
                      d.toasts \cap SuccessToasts = {}
       /\ \A c \in BagToSet(viCalls) :
             (c.stage = "replied" /\ c.result # "ok" /\ ViClientReceive(c))
                => viToast' \notin SuccessToasts]_vars

\* storage holds a vote of voter uid in election e
HasVoteRow(uid, e) == \E v \in votes : v.election_id = e /\ v.user_id = uid

\* C24: every election the Elections page marks as voted, and the election of
\* the voting interface when hasVoted is set, has a stored vote of the
\* signed-in voter; handling the reply of an insert that was not accepted
\* adds no mark
C24_VotedMarkSound ==
    /\ \A e \in userVotes : HasVoteRow(PageUser, e)
    /\ hasVoted => HasVoteRow(ViUser, ViElection)
    /\ [][/\ \A c \in BagToSet(calls) :
                (c.result # "ok" /\ PgClientReceive(c)) => userVotes' = userVotes
          /\ \A c \in BagToSet(viCalls) :
                (c.result # "ok" /\ ViClientReceive(c)) => hasVoted' = hasVoted
          /\ \A e \in userVotes' : HasVoteRow(PageUser, e)'
          /\ hasVoted' => HasVoteRow(ViUser, ViElection)']_vars

\* the page marks e1 as voted after its accepted insert, and the voting
\* interface, whose insert was then rejected, carries no mark
C24_Witness ==
    /\ "e1" \in userVotes
    /\ HasVoteRow(PageUser, "e1")
    /\ ~ hasVoted
    /\ viToast = "Failed to cast vote. Please try again."

\* C25: the total the live counter displays is at most the number of vote rows
\* stored for its election
C25_TotalAtMostStored ==
    lvcTotalVotes <= Cardinality({v \in votes : v.election_id = ResultsElection})

\* C26: when no fetchVoteCount, no insert and no notification of the voting
\* interface is outstanding, the displayed vote count is the number of rows
\* of the election the viewer can read
C26_SettledCountIsStored ==
    (viFetches = EmptyBag /\ viCalls = EmptyBag /\ ViUndelivered = {})
       => viVoteCount = CountElectionVotes(ViUser, ViElection)

\* the fields of the form that hold a name
NonBlankFields == {i \in DOMAIN formOptions : formOptions[i] \notin {"", " "}}

\* C27: a creation flow that ends with its success toast has inserted at
\* least two options, all with names that are not blank; a submission of a
\* form with a blank title or fewer than two names sends no request; and the
\* form always has at least two option fields
C27_ValidatedCreation ==
    /\ Len(formOptions) >= 2
    /\ [][/\ (ceReceiveOptions /\ ceToast' \in {"Success", "Election Scheduled"})
               => /\ Cardinality(ceCall.names) >= 2
                  /\ ceCall.names \subseteq options
                  /\ ceCall.names \cap {"", " "} = {}
          /\ \A flow \in {"dialog", "scheduler"}, datesValid \in BOOLEAN :
                (/\ formTitle \in {"", " "} \/ Cardinality(NonBlankFields) < 2
                 /\ submitForm(flow, datesValid))
                   => ceCall' = NoCreate /\ UNCHANGED storageVars
          /\ Len(formOptions') >= 2]_vars

\* a flow has ended with its success toast, the two options of its form are
\* stored and the form is reset
C27_Witness ==
    /\ ceToast \in {"Success", "Election Scheduled"}
    /\ ceCall = NoCreate
    /\ FormOptions \subseteq options
    /\ formOptions = <<"", "">>

\* C28: a toggle carries the negation of the value its card shows when it is
\* clicked, and the update of a toggle leaves the election with the negation
\* of that shown value, whatever value is stored when the update arrives
C28_ToggleNegatesDisplayed ==
    [][/\ \A e \in Elections :
             toggleClick(e) =>
                adCalls' = adCalls (+) SetToBag({[election_id |-> e,
                                                  isOpen |-> adElections[e] = "open",
                                                  stage |-> "sent"]})
       /\ \A c \in BagToSet(adCalls) :
             toggleStorageUpdate(c) =>
                is_open' = [is_open EXCEPT ![c.election_id] = ~ c.isOpen]]_vars

\* two toggles of e1 were clicked while its card showed open, storage has
\* handled both updates, and e1 is stored closed
C28_Witness ==
    /\ CopiesIn([election_id |-> "e1", isOpen |-> TRUE, stage |-> "replied"], adCalls) = 2
    /\ ~ is_open["e1"]

\* C29: an update of profiles sent by a principal that neither owns the row
\* nor has role admin changes nothing, and whenever the role of a user changes,
\* the update was sent by that user or by a principal whose role was admin
C29_RoleChangeByOwnerOrAdmin ==
    [][profiles' # profiles =>
          /\ \A uid \in users \cup {NoUser}, target \in users, newRole \in Roles :
                ApiUpdateProfile(uid, target, newRole)
                   => uid = target \/ get_user_role(uid) = "admin"
          /\ \A target \in users :
                get_user_role(target)' # get_user_role(target)
                   => /\ apiLast'.kind = "update_profile"
                      /\ apiLast'.target = target
                      /\ apiLast'.uid = target \/ get_user_role(apiLast'.uid) = "admin"]_vars

\* a principal whose role is voter has sent an update that sets the role of
\* the admin's profile to voter, and the admin's role is still admin
C29_Witness ==
    /\ apiLast.kind = "update_profile"
    /\ apiLast.uid \in users /\ get_user_role(apiLast.uid) = "voter"
    /\ apiLast.target = AdminUser /\ apiLast.role = "voter"
    /\ get_user_role(AdminUser) = "admin"

\* a call made when attempts has reached maxAttempts and no more than windowMs
\* has passed since lastReset returns false
RefusesWhileLimited ==
    [][(checkRateLimit /\ rlAttempts >= maxAttempts /\ rlNow - rlLastReset <= windowMs)
          => ~ rlResult']_vars

\* C30: the limiter grants at most maxAttempts calls in the window that begins
\* at lastReset, and attempts is at most maxAttempts
C30_AtMostMaxPerWindow ==
    /\ rlGranted <= maxAttempts
    /\ rlAttempts <= maxAttempts

====
